---- MODULE Spec2Model ----
(***************************************************************************)
(* AegisCrypt-Web: the chunked .aegis v2 container (services/cryptoService *)
(* processFileEncrypt / processFileDecrypt) and the batch driver of        *)
(* App.tsx (runCrypto, cancelOperation, handleDrop, handleLogout).         *)
(*                                                                         *)
(* Buffers are sequences of bytes (0..255).  The WebCrypto primitives are  *)
(* modelled as ideal primitives: SHA-256 and PBKDF2 are injective on the   *)
(* inputs of the model, and AES-GCM verifies exactly the (key, iv,         *)
(* ciphertext||tag) triples that an encrypt call has produced (variable    *)
(* sealed).  The async functions are split at their await points.          *)
(*                                                                         *)
(* runCrypto calls the stream functions with five arguments (..., signal,  *)
(* updateProgress) while the functions of cryptoService.ts declare four    *)
(* (..., onProgress).  The model binds the arguments by role: the progress *)
(* callback is updateProgress, and the signal is not a parameter of the    *)
(* stream functions, so they cannot read it.                               *)
(***************************************************************************)
EXTENDS Integers, Sequences, FiniteSets, TLC

\* ---------------------------------------------------------------- constants
SALT_LENGTH == 32
IV_LENGTH == 12
TAG_LENGTH_BITS == 128
TAG_LENGTH == TAG_LENGTH_BITS \div 8
FILE_MAGIC == <<65, 69, 71, 73, 83>>
FILE_VERSION == 2
HEADER_LENGTH == Len(FILE_MAGIC) + 1 + SALT_LENGTH

\* CRYPTO_CONSTANTS.CHUNK_SIZE is 1 MiB in the source; the model scales the
\* chunk size down so that multi-chunk files stay small.
CHUNK_SIZE == 2
\* longest source file, in bytes
MaxLen == 4
\* the random source returns one of the words 0..MaxSeed
MaxSeed == 1
\* longest queue a drop or file selection can build
MaxFiles == 2
\* number of batches (runCrypto calls) of one behaviour
MaxBatches == 1

\* ------------------------------------------------------------- byte helpers
Min(a, b) == IF a < b THEN a ELSE b
Max(a, b) == IF a > b THEN a ELSE b

RECURSIVE SumSeq(_)
SumSeq(s) == IF s = <<>> THEN 0 ELSE Head(s) + SumSeq(Tail(s))

RECURSIVE Concat(_)
\* concatenation of a sequence of byte sequences (result.set(chunk, offset) loop)
Concat(ss) == IF ss = <<>> THEN <<>> ELSE Head(ss) \o Concat(Tail(ss))

\* TypedArray.prototype.slice / Blob.slice: relative indices, clamped
RelIndex(x, len) == IF x < 0 THEN Max(len + x, 0) ELSE Min(x, len)
JsSlice(buf, start, end) ==
  LET s == RelIndex(start, Len(buf))
      e == RelIndex(end, Len(buf))
  IN  [i \in 1..Max(e - s, 0) |-> buf[s + i]]

\* uint8View[i]: undefined (modelled as -1) outside the buffer
Undefined == -1
ByteAt(buf, i) == IF i >= 0 /\ i < Len(buf) THEN buf[i + 1] ELSE Undefined

\* DataView.setInt32(0, v, true): 4 bytes, little endian, two's complement
\* (w is v without its sign bit; TLC's integers are 32 bits wide)
Int32ToLE(v) ==
  LET w == IF v < 0 THEN (v + 2147483647) + 1 ELSE v
      top == IF v < 0 THEN 128 ELSE 0
  IN  <<w % 256, (w \div 256) % 256, (w \div 65536) % 256, (w \div 16777216) + top>>

\* DataView.getInt32(offset, true)
GetInt32LE(buf, offset) ==
  LET b3 == buf[offset + 4]
      w == buf[offset + 1] + 256 * buf[offset + 2] + 65536 * buf[offset + 3]
             + 16777216 * (b3 % 128)
  IN  IF b3 >= 128 THEN (w - 2147483647) - 1 ELSE w

\* TextEncoder.encode: UTF-8 of a sequence of code points below 0x800
RECURSIVE Utf8Encode(_)
Utf8Encode(cps) ==
  IF cps = <<>> THEN <<>>
  ELSE LET c == Head(cps)
       IN  (IF c < 128 THEN <<c>> ELSE <<192 + (c \div 64), 128 + (c % 64)>>)
             \o Utf8Encode(Tail(cps))

\* Math.round(x / y * 100) for x >= 0, y > 0
RoundPercent(x, y) == (200 * x + y) \div (2 * y)

\* ------------------------------------------------------- ideal primitives
\* window.crypto.getRandomValues(new Uint8Array(n)): the word chosen by the
\* random source, spread over n bytes
RandomBytes(n, seed) == [i \in 1..n |-> (16 * seed + i) % 256]
generateSalt(seed) == RandomBytes(SALT_LENGTH, seed)
generateIV(seed) == RandomBytes(IV_LENGTH, seed)

\* crypto.subtle.digest('SHA-256', buf): 32 bytes, injective on buffers
\* shorter than 32 bytes (ideal hash)
Sha256(buf) == <<Len(buf)>> \o buf \o [i \in 1..(31 - Len(buf)) |-> 0]

\* a null keyFileBuffer
NoKeyfile == [present |-> FALSE, bytes |-> <<>>]
Keyfile(b) == [present |-> TRUE, bytes |-> b]

\* mutant of prepareKeyMaterial: the keyfile left out of the key material
prepareKeyMaterialNoKeyfile(password, keyFileBuffer) == Utf8Encode(password)

\* mutant of prepareKeyMaterial: an empty keyfile counts as no keyfile
prepareKeyMaterialEmptyKeyfileIgnored(password, keyFileBuffer) ==
  LET passwordBytes == Utf8Encode(password)
  IN  IF ~keyFileBuffer.present \/ Len(keyFileBuffer.bytes) = 0 THEN passwordBytes
      ELSE passwordBytes \o Sha256(keyFileBuffer.bytes)

prepareKeyMaterial(password, keyFileBuffer) ==
  LET passwordBytes == Utf8Encode(password)
  IN  IF ~keyFileBuffer.present THEN passwordBytes
      ELSE passwordBytes \o Sha256(keyFileBuffer.bytes)

\* PBKDF2 as an ideal key derivation: the key is determined by, and
\* determines, (key material, salt); usage is the key's usage list
deriveKey(keyMaterialRaw, salt, usage) ==
  [km |-> keyMaterialRaw, salt |-> salt, usage |-> usage]

NoKey == [km |-> <<>>, salt |-> <<>>, usage |-> {}]

\* AES-GCM key stream byte and tag (a stand-in for CTR mode and GHASH)
KeyStream(key, iv, i) == (SumSeq(key.km) + SumSeq(key.salt) + SumSeq(iv) + i) % 256
GcmCiphertext(key, iv, pt) == [i \in 1..Len(pt) |-> (pt[i] + KeyStream(key, iv, i)) % 256]
GcmTag(key, iv, ct) ==
  [j \in 1..TAG_LENGTH |-> (SumSeq(ct) + Len(ct) + KeyStream(key, iv, j)) % 256]

\* crypto.subtle.encrypt({name: 'AES-GCM', iv}, key, data): ciphertext || tag
GcmEncrypt(key, iv, pt) ==
  LET ct == GcmCiphertext(key, iv, pt) IN ct \o GcmTag(key, iv, ct)

\* the entry encrypt adds to the table of authentic ciphertexts
Seal(key, iv, data) == [km |-> key.km, salt |-> key.salt, iv |-> iv, data |-> data]


\* ------------------------------------------------------------------- state
VARIABLES
  session,      \* App: AuthSession or NoSession
  files,        \* App: the processing queue (file contents)
  isProcessing, \* App: a batch is running
  progress,     \* App: CryptoProgress or NoProgress
  abortRef,     \* App: abortControllerRef.current, "null" or "controller"
  aborted,      \* signal.aborted of the controller of the current batch
  logs,         \* App: the log entries (as a set)
  batch,        \* the call frame of runCrypto
  op,           \* the call frame of processFileEncrypt / processFileDecrypt
  sealed,       \* AES-GCM: the authentic (key, iv, ciphertext||tag) triples
  made,         \* the containers processFileEncrypt has returned, with their source
  downloads,    \* what downloadBlob has been given, in order
  nBatches,     \* number of runCrypto calls so far
  naming        \* the call frame of the output-name helpers

vars == <<session, files, isProcessing, progress, abortRef, aborted, logs, batch,
          op, sealed, made, downloads, nBatches, naming>>

\* no output name is being derived
NoNaming == [pc |-> "idle", name |-> <<>>, out |-> <<>>, trail |-> <<>>]

NoSession == [loggedIn |-> FALSE, password |-> <<>>, keyFileBuffer |-> NoKeyfile]
NoProgress == [active |-> FALSE, currentFile |-> 0, bytesProcessed |-> 0, totalBytes |-> 0]
NoError == [msg |-> "", found |-> 0]
NoCalls == [prepare |-> 0, derive |-> 0, cipher |-> 0, slice |-> 0, lenRead |-> 0]

IdleOp ==
  [mode |-> "NONE", pc |-> "idle", input |-> <<>>, password |-> <<>>,
   keyFileBuffer |-> NoKeyfile, salt |-> <<>>, key |-> NoKey, offset |-> 0,
   processedBytes |-> 0, chunks |-> <<>>, result |-> <<>>, error |-> NoError,
   draws |-> <<>>, calls |-> NoCalls, progressLog |-> <<>>]

IdleBatch == [pc |-> "idle", mode |-> "NONE", files |-> <<>>, i |-> 0, successCount |-> 0]

\* the error messages of cryptoService.ts
ErrInvalidMagic == "Invalid .aegis file"
ErrVersion == "Version mismatch"
ErrUnexpectedEOF == "Corrupted file: Unexpected EOF"
ErrDecryptFailed == "Decryption failed. Bad password or corrupted chunk."
\* thrown by DataView.getInt32 for an offset outside the buffer
ErrRange == "RangeError: Offset is outside the bounds of the DataView"

\* ------------------------------------------------- cryptoService: encryption
\* mutant of packageChunk: the length written big endian
Reverse4(b) == <<b[4], b[3], b[2], b[1]>>
packageChunkBigEndian(iv, ciphertext) ==
  LET length == Len(iv) + Len(ciphertext)
  IN  Reverse4(Int32ToLE(length)) \o iv \o ciphertext

\* mutant of packageChunk: the length field counts its own 4 bytes
packageChunkLengthCountsItself(iv, ciphertext) ==
  LET length == 4 + Len(iv) + Len(ciphertext)
  IN  Int32ToLE(length) \o iv \o ciphertext

\* packageChunk: [4b length][12b IV][ciphertext + tag]
packageChunk(iv, ciphertext) ==
  LET length == Len(iv) + Len(ciphertext)
  IN  Int32ToLE(length) \o iv \o ciphertext

\* mutant of EncryptBegin: the key is derived for both directions
EncryptBeginBothUsages(o, saltSeed) ==
  LET salt == generateSalt(saltSeed)
      keyMaterial == prepareKeyMaterial(o.password, o.keyFileBuffer)
      key == deriveKey(keyMaterial, salt, {"encrypt", "decrypt"})
      header == FILE_MAGIC \o <<FILE_VERSION>> \o salt
  IN  [o EXCEPT !.pc = "loop", !.salt = salt, !.key = key, !.chunks = <<header>>,
                !.processedBytes = 0, !.offset = 0,
                !.calls = [@ EXCEPT !.prepare = @ + 1, !.derive = @ + 1]]

\* processFileEncrypt, lines 268-280: salt, key, header, empty accumulator
EncryptBegin(o, saltSeed) ==
  LET salt == generateSalt(saltSeed)
      keyMaterial == prepareKeyMaterial(o.password, o.keyFileBuffer)
      key == deriveKey(keyMaterial, salt, {"encrypt"})
      header == FILE_MAGIC \o <<FILE_VERSION>> \o salt
  IN  [o EXCEPT !.pc = "loop", !.salt = salt, !.key = key, !.chunks = <<header>>,
                !.processedBytes = 0, !.offset = 0,
                !.calls = [@ EXCEPT !.prepare = @ + 1, !.derive = @ + 1]]

\* the value passed to onProgress by the encryption loop
EncryptProgressArg(processedBytes, totalSize) ==
  Min(99, RoundPercent(processedBytes, totalSize))

\* mutant of EncryptChunk: the IV generated once, before the loop
EncryptChunkOneIV(o, ivSeed) ==
  LET totalSize == Len(o.input)
      chunkBuffer == JsSlice(o.input, o.offset, o.offset + CHUNK_SIZE)
      iv == IF Len(o.chunks) > 1 THEN SubSeq(o.chunks[2], 5, 4 + IV_LENGTH)
            ELSE generateIV(ivSeed)
      encryptedContent == GcmEncrypt(o.key, iv, chunkBuffer)
      processedBytes == o.processedBytes + Len(chunkBuffer)
  IN  [o EXCEPT !.chunks = Append(@, <<>> \o Int32ToLE(Len(iv) + Len(encryptedContent))
                                       \o iv \o encryptedContent),
                !.processedBytes = processedBytes,
                !.offset = @ + CHUNK_SIZE,
                !.calls = [@ EXCEPT !.cipher = @ + 1, !.slice = @ + 1],
                !.progressLog = Append(@, Min(99, RoundPercent(processedBytes, totalSize)))]

\* one iteration of the loop of processFileEncrypt, lines 283-301
EncryptChunk(o, ivSeed) ==
  LET totalSize == Len(o.input)
      chunkBuffer == JsSlice(o.input, o.offset, o.offset + CHUNK_SIZE)
      iv == generateIV(ivSeed)
      encryptedContent == GcmEncrypt(o.key, iv, chunkBuffer)
      processedBytes == o.processedBytes + Len(chunkBuffer)
  IN  [o EXCEPT !.chunks = Append(@, packageChunk(iv, encryptedContent)),
                !.processedBytes = processedBytes,
                !.offset = @ + CHUNK_SIZE,
                !.calls = [@ EXCEPT !.cipher = @ + 1, !.slice = @ + 1],
                !.progressLog = Append(@, EncryptProgressArg(processedBytes, totalSize))]

\* what the iteration adds to the table of authentic ciphertexts
EncryptChunkSeal(o, ivSeed) ==
  LET chunkBuffer == JsSlice(o.input, o.offset, o.offset + CHUNK_SIZE)
      iv == generateIV(ivSeed)
  IN  Seal(o.key, iv, GcmEncrypt(o.key, iv, chunkBuffer))

\* mutant of EncryptMore: only whole chunks are taken, a short tail is left out
EncryptMoreWholeChunksOnly(o) == o.offset + CHUNK_SIZE <= Len(o.input)

\* loop condition of processFileEncrypt: offset < totalSize
EncryptMore(o) == o.offset < Len(o.input)

\* mutant of EncryptFinish: a source without chunks is refused
EncryptFinishRejectsEmpty(o) ==
  IF Len(o.chunks) = 1 THEN [o EXCEPT !.pc = "failed", !.error = [msg |-> "Empty file", found |-> 0]]
  ELSE [o EXCEPT !.pc = "done", !.result = Concat(o.chunks)]

\* lines 303-313: all chunks combined into one buffer
EncryptFinish(o) == [o EXCEPT !.pc = "done", !.result = Concat(o.chunks)]


\* ------------------------------------------------- cryptoService: decryption
\* crypto.subtle.decrypt({name: 'AES-GCM', iv}, key, data) resolves exactly on
\* authentic input, under a key that allows decryption
GcmVerifies(key, iv, data) ==
  /\ "decrypt" \in key.usage
  /\ Seal(key, iv, data) \in sealed

\* the plaintext crypto.subtle.decrypt resolves with
GcmDecrypt(key, iv, data) ==
  LET n == Len(data) - TAG_LENGTH
  IN  [i \in 1..n |-> (data[i] - KeyStream(key, iv, i)) % 256]

\* the magic loop of processFileDecrypt, lines 329-331
MagicMatches(buf) ==
  \A i \in 0..(Len(FILE_MAGIC) - 1) : ByteAt(buf, i) = FILE_MAGIC[i + 1]

Failed(o, msg, found) == [o EXCEPT !.pc = "failed", !.error = [msg |-> msg, found |-> found]]

\* mutant of DecryptBegin: every version up to 2 accepted
DecryptBeginOlderVersions(o) ==
  LET version == ByteAt(o.input, Len(FILE_MAGIC))
      salt == JsSlice(o.input, 6, 6 + SALT_LENGTH)
      key == deriveKey(prepareKeyMaterial(o.password, o.keyFileBuffer), salt, {"decrypt"})
  IN  IF ~MagicMatches(o.input) THEN Failed(o, ErrInvalidMagic, 0)
      ELSE IF version > 2 THEN Failed(o, ErrVersion, version)
      ELSE [o EXCEPT !.pc = "loop", !.salt = salt, !.key = key,
                     !.offset = 6 + SALT_LENGTH, !.chunks = <<>>,
                     !.calls = [@ EXCEPT !.prepare = @ + 1, !.derive = @ + 1]]

\* mutant of DecryptBegin: the version checked before the magic
DecryptBeginVersionFirst(o) ==
  LET version == ByteAt(o.input, Len(FILE_MAGIC))
      salt == JsSlice(o.input, 6, 6 + SALT_LENGTH)
      key == deriveKey(prepareKeyMaterial(o.password, o.keyFileBuffer), salt, {"decrypt"})
  IN  IF version # 2 THEN Failed(o, ErrVersion, version)
      ELSE IF ~MagicMatches(o.input) THEN Failed(o, ErrInvalidMagic, 0)
      ELSE [o EXCEPT !.pc = "loop", !.salt = salt, !.key = key,
                     !.offset = 6 + SALT_LENGTH, !.chunks = <<>>,
                     !.calls = [@ EXCEPT !.prepare = @ + 1, !.derive = @ + 1]]

\* mutant of DecryptBegin: the key is derived before the header is checked
DecryptBeginDerivesFirst(o) ==
  LET version == ByteAt(o.input, Len(FILE_MAGIC))
      salt == JsSlice(o.input, 6, 6 + SALT_LENGTH)
      key == deriveKey(prepareKeyMaterial(o.password, o.keyFileBuffer), salt, {"decrypt"})
      derived == [o EXCEPT !.salt = salt, !.key = key,
                           !.calls = [@ EXCEPT !.prepare = @ + 1, !.derive = @ + 1]]
  IN  IF ~MagicMatches(o.input) THEN Failed(derived, ErrInvalidMagic, 0)
      ELSE IF version # 2 THEN Failed(derived, ErrVersion, version)
      ELSE [derived EXCEPT !.pc = "loop", !.offset = 6 + SALT_LENGTH, !.chunks = <<>>]

\* processFileDecrypt, lines 325-344: header validation, salt, key
DecryptBegin(o) ==
  LET version == ByteAt(o.input, Len(FILE_MAGIC))
      salt == JsSlice(o.input, 6, 6 + SALT_LENGTH)
      keyMaterial == prepareKeyMaterial(o.password, o.keyFileBuffer)
      key == deriveKey(keyMaterial, salt, {"decrypt"})
  IN  IF ~MagicMatches(o.input) THEN Failed(o, ErrInvalidMagic, 0)
      ELSE IF version # 2 THEN Failed(o, ErrVersion, version)
      ELSE [o EXCEPT !.pc = "loop", !.salt = salt, !.key = key,
                     !.offset = 6 + SALT_LENGTH, !.chunks = <<>>,
                     !.calls = [@ EXCEPT !.prepare = @ + 1, !.derive = @ + 1]]

\* the loop of processFileDecrypt goes on: while (offset < totalLength), and
\* not the break of line 348
DecryptMore(o) ==
  /\ o.offset < Len(o.input)
  /\ ~(o.offset + 4 > Len(o.input))

\* the value passed to onProgress by the decryption loop
DecryptProgressArg(offset, totalLength) == Min(99, RoundPercent(offset, totalLength))

\* mutant of DecryptFrame: a chunk that fails to decrypt is skipped
DecryptFrameSkipsBadChunk(o) ==
  LET totalLength == Len(o.input)
      chunkLen == GetInt32LE(o.input, o.offset)
      offset == o.offset + 4
      chunkData == JsSlice(o.input, offset, offset + chunkLen)
      iv == JsSlice(chunkData, 0, IV_LENGTH)
      ciphertext == JsSlice(chunkData, IV_LENGTH, Len(chunkData))
      read == [o EXCEPT !.calls = [@ EXCEPT !.lenRead = @ + 1], !.offset = offset]
      tried == [read EXCEPT !.calls = [@ EXCEPT !.slice = @ + 1, !.cipher = @ + 1]]
  IN  IF o.offset < 0 THEN Failed(o, ErrRange, 0)
      ELSE IF chunkLen > totalLength - offset THEN Failed(read, ErrUnexpectedEOF, 0)
      ELSE [tried EXCEPT
              !.chunks = IF GcmVerifies(o.key, iv, ciphertext)
                         THEN Append(@, GcmDecrypt(o.key, iv, ciphertext)) ELSE @,
              !.offset = IF chunkLen > 0 THEN offset + chunkLen ELSE totalLength,
              !.progressLog = IF GcmVerifies(o.key, iv, ciphertext)
                              THEN Append(@, DecryptProgressArg(offset + chunkLen, totalLength))
                              ELSE @]

\* mutant of DecryptFrame: the declared length is not checked against the buffer
DecryptFrameNoLengthCheck(o) ==
  LET totalLength == Len(o.input)
      chunkLen == GetInt32LE(o.input, o.offset)
      offset == o.offset + 4
      chunkData == JsSlice(o.input, offset, IF chunkLen > totalLength - offset
                                            THEN totalLength ELSE offset + chunkLen)
      iv == JsSlice(chunkData, 0, IV_LENGTH)
      ciphertext == JsSlice(chunkData, IV_LENGTH, Len(chunkData))
      read == [o EXCEPT !.calls = [@ EXCEPT !.lenRead = @ + 1], !.offset = offset]
      tried == [read EXCEPT !.calls = [@ EXCEPT !.slice = @ + 1, !.cipher = @ + 1]]
  IN  IF o.offset < 0 THEN Failed(o, ErrRange, 0)
      ELSE IF ~GcmVerifies(o.key, iv, ciphertext) THEN Failed(tried, ErrDecryptFailed, 0)
      ELSE [tried EXCEPT
              !.chunks = Append(@, GcmDecrypt(o.key, iv, ciphertext)),
              !.offset = offset + Len(chunkData),
              !.progressLog = Append(@, DecryptProgressArg(offset + Len(chunkData), totalLength))]

\* mutant of DecryptFrame: the error of a rejected chunk names the offset of
\* the chunk
DecryptFrameReportsOffset(o) ==
  LET totalLength == Len(o.input)
      chunkLen == GetInt32LE(o.input, o.offset)
      offset == o.offset + 4
      chunkData == JsSlice(o.input, offset, offset + chunkLen)
      iv == JsSlice(chunkData, 0, IV_LENGTH)
      ciphertext == JsSlice(chunkData, IV_LENGTH, Len(chunkData))
      read == [o EXCEPT !.calls = [@ EXCEPT !.lenRead = @ + 1], !.offset = offset]
      tried == [read EXCEPT !.calls = [@ EXCEPT !.slice = @ + 1, !.cipher = @ + 1]]
  IN  IF o.offset < 0 THEN Failed(o, ErrRange, 0)
      ELSE IF chunkLen > totalLength - offset THEN Failed(read, ErrUnexpectedEOF, 0)
      ELSE IF ~GcmVerifies(o.key, iv, ciphertext) THEN Failed(tried, ErrDecryptFailed, offset)
      ELSE [tried EXCEPT
              !.chunks = Append(@, GcmDecrypt(o.key, iv, ciphertext)),
              !.offset = offset + chunkLen,
              !.progressLog = Append(@, DecryptProgressArg(offset + chunkLen, totalLength))]

\* mutant of DecryptFrame: onProgress is called before the chunk is decrypted
DecryptFrameProgressFirst(o) ==
  LET totalLength == Len(o.input)
      chunkLen == GetInt32LE(o.input, o.offset)
      offset == o.offset + 4
      chunkData == JsSlice(o.input, offset, offset + chunkLen)
      iv == JsSlice(chunkData, 0, IV_LENGTH)
      ciphertext == JsSlice(chunkData, IV_LENGTH, Len(chunkData))
      read == [o EXCEPT !.calls = [@ EXCEPT !.lenRead = @ + 1], !.offset = offset]
      tried == [read EXCEPT
                  !.calls = [@ EXCEPT !.slice = @ + 1, !.cipher = @ + 1],
                  !.progressLog = Append(@, DecryptProgressArg(offset + chunkLen, totalLength))]
  IN  IF o.offset < 0 THEN Failed(o, ErrRange, 0)
      ELSE IF chunkLen > totalLength - offset THEN Failed(read, ErrUnexpectedEOF, 0)
      ELSE IF ~GcmVerifies(o.key, iv, ciphertext) THEN Failed(tried, ErrDecryptFailed, 0)
      ELSE [tried EXCEPT
              !.chunks = Append(@, GcmDecrypt(o.key, iv, ciphertext)),
              !.offset = offset + chunkLen]

\* one iteration of the loop of processFileDecrypt, lines 347-372
\* (offset + chunkLen > totalLength is written chunkLen > totalLength - offset:
\* the source computes in doubles, which do not overflow)
DecryptFrame(o) ==
  LET totalLength == Len(o.input)
      chunkLen == GetInt32LE(o.input, o.offset)
      offset == o.offset + 4
      chunkData == JsSlice(o.input, offset, offset + chunkLen)
      iv == JsSlice(chunkData, 0, IV_LENGTH)
      ciphertext == JsSlice(chunkData, IV_LENGTH, Len(chunkData))
      read == [o EXCEPT !.calls = [@ EXCEPT !.lenRead = @ + 1], !.offset = offset]
      tried == [read EXCEPT !.calls = [@ EXCEPT !.slice = @ + 1, !.cipher = @ + 1]]
  IN  IF o.offset < 0 THEN Failed(o, ErrRange, 0)
      ELSE IF chunkLen > totalLength - offset THEN Failed(read, ErrUnexpectedEOF, 0)
      ELSE IF ~GcmVerifies(o.key, iv, ciphertext) THEN Failed(tried, ErrDecryptFailed, 0)
      ELSE [tried EXCEPT
              !.chunks = Append(@, GcmDecrypt(o.key, iv, ciphertext)),
              !.offset = offset + chunkLen,
              !.progressLog = Append(@, DecryptProgressArg(offset + chunkLen, totalLength))]

\* lines 375-384: the decrypted chunks combined
DecryptFinish(o) == [o EXCEPT !.pc = "done", !.result = Concat(o.chunks)]


\* ------------------------------------------------------------- input sets
\* passwords, as code points: "pw" and "pé"
Passwords == {<<112, 119>>, <<112, 233>>}
KeyfileA == Keyfile(<<>>)
KeyfileB == Keyfile(<<10, 20>>)
\* the credentials a user logs in with (password, keyFileBuffer)
Credentials ==
  {[password |-> <<112, 119>>, keyFileBuffer |-> NoKeyfile],
   [password |-> <<112, 119>>, keyFileBuffer |-> KeyfileA],
   [password |-> <<112, 119>>, keyFileBuffer |-> KeyfileB],
   [password |-> <<112, 233>>, keyFileBuffer |-> KeyfileA]}

Seeds == 0..MaxSeed

\* the source files: one of every length up to MaxLen
SourceOfLen(n) == [i \in 1..n |-> (7 * i + 1) % 256]
Sources == {SourceOfLen(n) : n \in 0..MaxLen}

Zeros(n) == [i \in 1..n |-> 0]
Pow2(k) == IF k = 0 THEN 1 ELSE IF k = 1 THEN 2 ELSE IF k = 2 THEN 4 ELSE IF k = 3 THEN 8
           ELSE IF k = 4 THEN 16 ELSE IF k = 5 THEN 32 ELSE IF k = 6 THEN 64 ELSE 128
FlipBit(b, k) == IF (b \div Pow2(k)) % 2 = 1 THEN b - Pow2(k) ELSE b + Pow2(k)
OneBitApart(a, b) == \E k \in 0..7 : b = FlipBit(a, k)

\* the frames of a container c, as 0-based offsets of their length fields;
\* the walk ends at the first length field that does not fit the bytes left
RECURSIVE FrameOffsetsFrom(_, _)
FrameOffsetsFrom(c, off) ==
  IF off + 4 > Len(c) THEN <<>>
  ELSE LET l == GetInt32LE(c, off)
       IN  IF l < IV_LENGTH + TAG_LENGTH \/ l > Len(c) - off - 4 THEN <<>>
           ELSE <<off>> \o FrameOffsetsFrom(c, off + 4 + l)
FrameOffsets(c) == FrameOffsetsFrom(c, HEADER_LENGTH)
FrameLength(c, off) == 4 + GetInt32LE(c, off)
FrameBytes(c, off) == SubSeq(c, off + 1, off + FrameLength(c, off))
FrameIV(c, off) == SubSeq(c, off + 5, off + 4 + IV_LENGTH)
HeaderBytes(c) == SubSeq(c, 1, HEADER_LENGTH)
FrameSeq(c) == [j \in 1..Len(FrameOffsets(c)) |-> FrameBytes(c, FrameOffsets(c)[j])]

\* 0-based positions of the ciphertext/tag bytes of the frames of c
CtTagRegion(c) ==
  UNION {(off + 4 + IV_LENGTH)..(off + FrameLength(c, off) - 1) :
           off \in {FrameOffsets(c)[j] : j \in 1..Len(FrameOffsets(c))}}

\* the bits a tampering flips
TamperBits == 0..7
BitFlips(c) ==
  {[c EXCEPT ![p + 1] = FlipBit(@, k)] : p \in CtTagRegion(c), k \in TamperBits}

RemoveAt(s, j) == SubSeq(s, 1, j - 1) \o SubSeq(s, j + 1, Len(s))
DuplicateAt(s, j) == SubSeq(s, 1, j) \o SubSeq(s, j, Len(s))
Reverse(s) == [j \in 1..Len(s) |-> s[Len(s) + 1 - j]]

\* whole-frame edits of c: a frame removed, a frame duplicated, the order reversed
FrameEdits(c) ==
  LET fs == FrameSeq(c)
  IN  ({HeaderBytes(c) \o Concat(RemoveAt(fs, j)) : j \in 1..Len(fs)}
        \cup {HeaderBytes(c) \o Concat(DuplicateAt(fs, j)) : j \in 1..Len(fs)}
        \cup {HeaderBytes(c) \o Concat(Reverse(fs))}) \ {c}

\* the version byte of c replaced
VersionEdits(c) == {[c EXCEPT ![Len(FILE_MAGIC) + 1] = v] : v \in {0, 1, 3, 255}}

\* one magic byte of c replaced, alone or together with the version byte
MagicEdits(c) ==
  {[c EXCEPT ![j] = 0] : j \in 1..Len(FILE_MAGIC)}
    \cup {[c EXCEPT ![1] = 97, ![Len(FILE_MAGIC) + 1] = 1]}

\* the length field of one frame of c replaced by a larger value
LengthEdits(c) ==
  UNION {{SubSeq(c, 1, off) \o Int32ToLE(l) \o SubSeq(c, off + 5, Len(c)) :
            l \in {Len(c) - off - 3, 1073741824, 2147483647}} :
         off \in {FrameOffsets(c)[j] : j \in 1..Len(FrameOffsets(c))}}

\* the lowest bit of the first IV byte of one frame of c flipped
IvEdits(c) ==
  {[c EXCEPT ![off + 5] = FlipBit(@, 0)] :
     off \in {FrameOffsets(c)[j] : j \in 1..Len(FrameOffsets(c))}}

\* the length field of one frame of c replaced by a value below the IV length
UndersizedEdits(c) ==
  UNION {{SubSeq(c, 1, off) \o Int32ToLE(l) \o SubSeq(c, off + 5, Len(c)) :
            l \in {-1, 0, IV_LENGTH - 1}} :
         off \in {FrameOffsets(c)[j] : j \in 1..Len(FrameOffsets(c))}}

\* 1 to 3 bytes after the last frame of c
StrayTails(c) == {c \o Zeros(k) : k \in 1..3}

\* one byte after c, and the length field of the first frame replaced by
\* the negative value for which slice(offset, offset + chunkLen), its end
\* counted from the end of the buffer, is again the IV and ciphertext of
\* that frame
BackwardEdits(c) ==
  IF FrameOffsets(c) = <<>> THEN {}
  ELSE LET off == FrameOffsets(c)[1]
           n == FrameLength(c, off) - 4
       IN  {SubSeq(c, 1, off) \o Int32ToLE(n - (Len(c) + 1)) \o SubSeq(c, off + 5, Len(c))
              \o <<0>>}

\* buffers that no encryption produced: short inputs, bad headers, and the
\* 100-byte file of the test suite that declares a 1 GiB chunk
Crafted ==
  {SubSeq(FILE_MAGIC, 1, n) : n \in 0..Len(FILE_MAGIC)}
    \cup {FILE_MAGIC \o <<v>> : v \in {1, 2, 3}}
    \cup {FILE_MAGIC \o <<2>> \o Zeros(SALT_LENGTH) \o Int32ToLE(1073741824)
            \o Zeros(100 - HEADER_LENGTH - 4)}
    \cup {FILE_MAGIC \o <<2>> \o Zeros(SALT_LENGTH) \o Int32ToLE(l) \o Zeros(IV_LENGTH + TAG_LENGTH) :
            l \in {IV_LENGTH + TAG_LENGTH, IV_LENGTH + TAG_LENGTH + 1}}
    \cup {<<97, 69, 71, 73, 83, 1>> \o Zeros(SALT_LENGTH)}

\* what the harness hands to processFileDecrypt: crafted buffers, and the
\* containers made so far, intact or tampered with
DecryptInputs ==
  Crafted \cup UNION {{m.out} \cup BitFlips(m.out) \cup FrameEdits(m.out)
                        \cup VersionEdits(m.out) \cup MagicEdits(m.out)
                        \cup LengthEdits(m.out) \cup IvEdits(m.out)
                        \cup UndersizedEdits(m.out) \cup StrayTails(m.out)
                        \cup BackwardEdits(m.out) : m \in made}


\* ------------------------------------------------------ the stream operation
NewOp(mode, input, password, keyFileBuffer) ==
  [IdleOp EXCEPT !.mode = mode, !.pc = "begin", !.input = input,
                 !.password = password, !.keyFileBuffer = keyFileBuffer]

\* updateProgress of runCrypto (the callback runCrypto passes for file batch.i)
updateProgress(bytes) ==
  [active |-> TRUE, currentFile |-> batch.i, bytesProcessed |-> bytes,
   totalBytes |-> Len(batch.files[batch.i])]

\* onProgress(arg): updateProgress when runCrypto is the caller, () => {} in the tests
OnProgress(arg) ==
  progress' = IF batch.pc = "awaitOp" THEN updateProgress(arg) ELSE progress

\* seed is the word the random source returns for the salt
StreamEncryptBegin(seed) ==
  /\ op.mode = "ENCRYPT" /\ op.pc = "begin"
  /\ op' = [EncryptBegin(op, seed) EXCEPT !.draws = Append(@, seed)]
  /\ UNCHANGED <<session, files, isProcessing, progress, abortRef, aborted, logs,
                 batch, sealed, made, naming, downloads, nBatches>>

\* seed is the word the random source returns for the IV of this chunk
StreamEncryptChunk(seed) ==
  /\ op.mode = "ENCRYPT" /\ op.pc = "loop" /\ EncryptMore(op)
  /\ op' = [EncryptChunk(op, seed) EXCEPT !.draws = Append(@, seed)]
  /\ sealed' = sealed \cup {EncryptChunkSeal(op, seed)}
  /\ OnProgress(op'.progressLog[Len(op'.progressLog)])
  /\ UNCHANGED <<session, files, isProcessing, abortRef, aborted, logs, batch,
                 made, naming, downloads, nBatches>>

StreamEncryptFinish ==
  /\ op.mode = "ENCRYPT" /\ op.pc = "loop" /\ ~EncryptMore(op)
  /\ op' = EncryptFinish(op)
  /\ made' = made \cup {[src |-> op.input, password |-> op.password,
                         keyFileBuffer |-> op.keyFileBuffer, out |-> op'.result]}
  /\ UNCHANGED <<session, files, isProcessing, progress, abortRef, aborted, logs,
                 batch, sealed, downloads, nBatches, naming>>

StreamDecryptBegin ==
  /\ op.mode = "DECRYPT" /\ op.pc = "begin"
  /\ op' = DecryptBegin(op)
  /\ UNCHANGED <<session, files, isProcessing, progress, abortRef, aborted, logs,
                 batch, sealed, made, naming, downloads, nBatches>>

StreamDecryptFrame ==
  /\ op.mode = "DECRYPT" /\ op.pc = "loop" /\ DecryptMore(op)
  /\ op' = DecryptFrame(op)
  /\ IF op'.pc = "loop" THEN OnProgress(op'.progressLog[Len(op'.progressLog)])
     ELSE progress' = progress
  /\ UNCHANGED <<session, files, isProcessing, abortRef, aborted, logs, batch,
                 sealed, made, naming, downloads, nBatches>>

StreamDecryptFinish ==
  /\ op.mode = "DECRYPT" /\ op.pc = "loop" /\ ~DecryptMore(op)
  /\ op' = DecryptFinish(op)
  /\ UNCHANGED <<session, files, isProcessing, progress, abortRef, aborted, logs,
                 batch, sealed, made, naming, downloads, nBatches>>

\* ------------------------------------- direct callers (tests/cryptoService)
CallEncrypt ==
  /\ op.pc = "idle" /\ batch.pc = "idle" /\ made = {}
  /\ \E file \in Sources, c \in Credentials :
       op' = NewOp("ENCRYPT", file, c.password, c.keyFileBuffer)
  /\ UNCHANGED <<session, files, isProcessing, progress, abortRef, aborted, logs,
                 batch, sealed, made, naming, downloads, nBatches>>

CallDecrypt ==
  /\ op.pc = "idle" /\ batch.pc = "idle"
  /\ \E fileBuffer \in DecryptInputs, c \in Credentials :
       op' = NewOp("DECRYPT", fileBuffer, c.password, c.keyFileBuffer)
  /\ UNCHANGED <<session, files, isProcessing, progress, abortRef, aborted, logs,
                 batch, sealed, made, naming, downloads, nBatches>>

\* the promise settles and the test goes on
CallReturns ==
  /\ op.pc \in {"done", "failed"} /\ batch.pc = "idle"
  /\ op' = IdleOp
  /\ UNCHANGED <<session, files, isProcessing, progress, abortRef, aborted, logs,
                 batch, sealed, made, naming, downloads, nBatches>>

Init ==
  /\ session = NoSession
  /\ files = <<>>
  /\ isProcessing = FALSE
  /\ progress = NoProgress
  /\ abortRef = "null"
  /\ aborted = FALSE
  /\ logs = {}
  /\ batch = IdleBatch
  /\ op = IdleOp
  /\ sealed = {}
  /\ made = {}
  /\ naming = NoNaming
  /\ downloads = <<>>
  /\ nBatches = 0

\* a step of the stream operation, the random source drawing from seeds
StreamStep(seeds) ==
  \/ \E seed \in seeds : StreamEncryptBegin(seed)
  \/ \E seed \in seeds : StreamEncryptChunk(seed)
  \/ StreamEncryptFinish
  \/ StreamDecryptBegin
  \/ StreamDecryptFrame
  \/ StreamDecryptFinish

NextCodec == CallEncrypt \/ CallDecrypt \/ CallReturns \/ StreamStep(Seeds)

SpecCodec == Init /\ [][NextCodec]_vars


\* -------------------------------------------------------------------- App
\* a continuation of runCrypto is queued as a microtask: no user event comes
\* between the end of a stream operation and the code that awaits it
UiEventPossible == ~(batch.pc = "awaitOp" /\ op.pc \in {"done", "failed"})

LogEntry(text, file, detail) ==
  [text |-> text, batch |-> nBatches, file |-> file, detail |-> detail]

\* LoginScreen: onLogin(session)
Login(c) ==
  /\ ~session.loggedIn
  /\ session' = [loggedIn |-> TRUE, password |-> c.password,
                 keyFileBuffer |-> c.keyFileBuffer]
  /\ UNCHANGED <<files, isProcessing, progress, abortRef, aborted, logs, batch, op,
                 sealed, made, naming, downloads, nBatches>>

\* mutant of handleLogout: the handler does not return while processing
handleLogoutWhileProcessing ==
  /\ session.loggedIn /\ UiEventPossible
  /\ session' = NoSession
  /\ files' = <<>>
  /\ logs' = {}
  /\ progress' = NoProgress
  /\ UNCHANGED <<isProcessing, abortRef, aborted, batch, op, sealed, made, naming,
                 downloads, nBatches>>

\* handleLogout (the button is disabled, and the handler returns, while processing)
handleLogout ==
  /\ session.loggedIn /\ UiEventPossible
  /\ ~isProcessing
  /\ session' = NoSession
  /\ files' = <<>>
  /\ logs' = {}
  /\ progress' = NoProgress
  /\ UNCHANGED <<isProcessing, abortRef, aborted, batch, op, sealed, made, naming,
                 downloads, nBatches>>

\* a container the user has from an earlier session: the longest source,
\* encrypted under the first session credential (chunk k with IV word k % 2)
RECURSIVE EncryptLoop(_)
EncryptLoop(o) ==
  IF EncryptMore(o) THEN EncryptLoop(EncryptChunk(o, Len(o.chunks) % 2))
  ELSE EncryptFinish(o)
EarlierOp ==
  EncryptLoop(EncryptBegin(NewOp("ENCRYPT", SourceOfLen(MaxLen), <<112, 119>>, NoKeyfile), 1))
EarlierContainer == EarlierOp.result
EarlierSeals ==
  {Seal(EarlierOp.key, FrameIV(EarlierContainer, off),
        SubSeq(EarlierContainer, off + 5 + IV_LENGTH, off + FrameLength(EarlierContainer, off))) :
     off \in {FrameOffsets(EarlierContainer)[j] : j \in 1..Len(FrameOffsets(EarlierContainer))}}

\* the files a user has at hand: sources, the earlier container, that
\* container with the last bit of its last byte flipped, and a file of
\* another format version
UserFiles ==
  {SourceOfLen(1), SourceOfLen(MaxLen), EarlierContainer,
   [EarlierContainer EXCEPT ![Len(EarlierContainer)] = FlipBit(@, 0)],
   FILE_MAGIC \o <<1>> \o Zeros(SALT_LENGTH)}

\* handleDrop: the dropped files are appended to the queue
handleDrop(newFiles) ==
  /\ session.loggedIn /\ UiEventPossible
  /\ Len(newFiles) > 0
  /\ Len(files) + Len(newFiles) <= MaxFiles
  /\ files' = files \o newFiles
  /\ logs' = logs \cup {LogEntry("Added files to queue.", 0, "")}
  /\ UNCHANGED <<session, isProcessing, progress, abortRef, aborted, batch, op,
                 sealed, made, naming, downloads, nBatches>>

\* handleFileSelect: the file dialog opens only while no batch is processing
handleFileSelect(newFiles) ==
  /\ ~isProcessing
  /\ handleDrop(newFiles)

\* removeFile(index): the remove buttons are disabled while processing
removeFile(index) ==
  /\ session.loggedIn /\ UiEventPossible
  /\ ~isProcessing
  /\ index \in 1..Len(files)
  /\ files' = RemoveAt(files, index)
  /\ UNCHANGED <<session, isProcessing, progress, abortRef, aborted, logs, batch,
                 op, sealed, made, naming, downloads, nBatches>>

\* cancelOperation (the CANCEL button is shown while processing)
cancelOperation ==
  /\ session.loggedIn /\ UiEventPossible
  /\ isProcessing
  /\ IF abortRef # "null"
     THEN /\ aborted' = TRUE
          /\ logs' = logs \cup {LogEntry("Operation cancelled by user.", 0, "")}
     ELSE UNCHANGED <<aborted, logs>>
  /\ UNCHANGED <<session, files, isProcessing, progress, abortRef, batch, op,
                 sealed, made, naming, downloads, nBatches>>

\* runCrypto, lines 116-153: the head of the batch loop for file i, up to the
\* await of the stream operation; b is the frame, lg the log so far
StartFile(b, i, lg) ==
  /\ batch' = [b EXCEPT !.pc = "awaitOp", !.i = i]
  /\ op' = NewOp(b.mode, b.files[i], session.password, session.keyFileBuffer)
  /\ logs' = lg \cup {LogEntry("Starting", i, b.mode)}

\* runCrypto, lines 163-172: the finally block; sc is successCount
Finally(b, sc, lg) ==
  LET refAfterCleanup == "null"
      abortedAtCheck == refAfterCleanup # "null" /\ aborted
      fullSuccess == sc = Len(b.files) /\ Len(b.files) > 0 /\ ~abortedAtCheck
  IN  /\ isProcessing' = FALSE
      /\ progress' = NoProgress
      /\ abortRef' = refAfterCleanup
      /\ logs' = IF fullSuccess THEN lg \cup {LogEntry("Batch Process Completed.", 0, "")}
                 ELSE lg
      /\ files' = IF fullSuccess THEN <<>> ELSE files
      /\ batch' = IdleBatch
      /\ op' = IdleOp

\* mutant of runCrypto: the Encrypt and Decrypt buttons stay enabled while a
\* batch is processing
runCryptoButtonsEnabled(mode) ==
  /\ session.loggedIn /\ UiEventPossible
  /\ Len(files) > 0
  /\ nBatches' = nBatches + 1
  /\ isProcessing' = TRUE
  /\ abortRef' = "controller"
  /\ aborted' = FALSE
  /\ batch' = [pc |-> "awaitOp", mode |-> mode, files |-> files, i |-> 1,
               successCount |-> 0]
  /\ op' = NewOp(mode, files[1], session.password, session.keyFileBuffer)
  /\ logs' = logs \cup {[text |-> "Starting", batch |-> nBatches + 1, file |-> 1,
                         detail |-> mode]}
  /\ UNCHANGED <<session, files, progress, sealed, made, naming, downloads>>

\* runCrypto, lines 104-122 and on to the first await
runCrypto(mode) ==
  /\ session.loggedIn /\ UiEventPossible
  /\ ~isProcessing /\ Len(files) > 0
  /\ batch.pc = "idle"
  /\ nBatches' = nBatches + 1
  /\ isProcessing' = TRUE
  /\ abortRef' = "controller"
  /\ aborted' = FALSE
  /\ batch' = [pc |-> "awaitOp", mode |-> mode, files |-> files, i |-> 1,
               successCount |-> 0]
  /\ op' = NewOp(mode, files[1], session.password, session.keyFileBuffer)
  /\ logs' = logs \cup {[text |-> "Starting", batch |-> nBatches + 1, file |-> 1,
                         detail |-> mode]}
  /\ UNCHANGED <<session, files, progress, sealed, made, naming, downloads>>

\* runCrypto, lines 147-160 after the await: the stream operation of file i
\* resolved, its result goes to downloadBlob, and the loop goes on
runCryptoResolved ==
  /\ batch.pc = "awaitOp" /\ op.pc = "done"
  /\ downloads' = Append(downloads, op.result)
  /\ LET b == [batch EXCEPT !.successCount = @ + 1]
         lg == logs \cup {LogEntry("Success", batch.i, batch.mode)}
     IN  IF batch.i < Len(batch.files) /\ ~aborted
         THEN /\ StartFile(b, batch.i + 1, lg)
              /\ UNCHANGED <<files, isProcessing, progress, abortRef>>
         ELSE Finally(b, b.successCount, lg)
  /\ UNCHANGED <<session, aborted, sealed, made, naming, nBatches>>

\* mutant of runCryptoRejected: what was decrypted or encrypted so far is
\* handed to downloadBlob
runCryptoRejectedSavesPartial ==
  /\ batch.pc = "awaitOp" /\ op.pc = "failed"
  /\ downloads' = Append(downloads, Concat(op.chunks))
  /\ LET lg == logs \cup {LogEntry("Failed", batch.i, op.error.msg)}
     IN  IF aborted THEN Finally(batch, batch.successCount, logs)
         ELSE IF batch.i < Len(batch.files)
         THEN /\ StartFile(batch, batch.i + 1, lg)
              /\ UNCHANGED <<files, isProcessing, progress, abortRef>>
         ELSE Finally(batch, batch.successCount, lg)
  /\ UNCHANGED <<session, aborted, sealed, made, naming, nBatches>>

\* mutant of runCryptoRejected: the first failure ends the batch
runCryptoRejectedStopsBatch ==
  /\ batch.pc = "awaitOp" /\ op.pc = "failed"
  /\ LET lg == logs \cup {LogEntry("Failed", batch.i, op.error.msg)}
     IN  IF aborted THEN Finally(batch, batch.successCount, logs)
         ELSE Finally(batch, batch.successCount, lg)
  /\ UNCHANGED <<session, aborted, sealed, made, naming, downloads, nBatches>>

\* runCrypto, lines 156-160: the stream operation of file i rejected
runCryptoRejected ==
  /\ batch.pc = "awaitOp" /\ op.pc = "failed"
  /\ LET lg == logs \cup {LogEntry("Failed", batch.i, op.error.msg)}
     IN  IF aborted THEN Finally(batch, batch.successCount, logs)
         ELSE IF batch.i < Len(batch.files)
         THEN /\ StartFile(batch, batch.i + 1, lg)
              /\ UNCHANGED <<files, isProcessing, progress, abortRef>>
         ELSE Finally(batch, batch.successCount, lg)
  /\ UNCHANGED <<session, aborted, sealed, made, naming, downloads, nBatches>>

\* one or two files dropped or selected at once
NewFileLists == {<<f>> : f \in UserFiles} \cup {<<SourceOfLen(MaxLen), SourceOfLen(1)>>}

\* the credentials of the sessions of the batch model
SessionCredentials ==
  {[password |-> <<112, 119>>, keyFileBuffer |-> NoKeyfile],
   [password |-> <<112, 119>>, keyFileBuffer |-> KeyfileB]}

Next ==
  \/ \E c \in SessionCredentials : Login(c)
  \/ handleLogout
  \/ \E newFiles \in NewFileLists : handleDrop(newFiles)
  \/ \E newFiles \in NewFileLists : handleFileSelect(newFiles)
  \/ \E index \in 1..MaxFiles : removeFile(index)
  \/ cancelOperation
  \/ \E mode \in {"ENCRYPT", "DECRYPT"} : nBatches < MaxBatches /\ runCrypto(mode)
  \/ runCryptoResolved
  \/ runCryptoRejected
  \/ StreamStep({0})

\* the state after construction, the earlier container being authentic
InitApp ==
  /\ session = NoSession
  /\ files = <<>>
  /\ isProcessing = FALSE
  /\ progress = NoProgress
  /\ abortRef = "null"
  /\ aborted = FALSE
  /\ logs = {}
  /\ batch = IdleBatch
  /\ op = IdleOp
  /\ sealed = EarlierSeals
  /\ made = {}
  /\ naming = NoNaming
  /\ downloads = <<>>
  /\ nBatches = 0

Spec == InitApp /\ [][Next]_vars

\* the App under the scheduling of the event loop: a promise of the stream
\* operation that can settle does settle, and the continuation of runCrypto
\* that awaits it then runs
AwaitSettles ==
  \/ StreamEncryptBegin(0) \/ StreamEncryptFinish
  \/ StreamDecryptBegin \/ StreamDecryptFrame \/ StreamDecryptFinish
  \/ runCryptoResolved \/ runCryptoRejected

\* the iteration of the encryption loop can run: its loop condition holds
EncryptChunkPending == op.mode = "ENCRYPT" /\ op.pc = "loop" /\ EncryptMore(op)

\* weak fairness of every step of a running batch; for the iteration of the
\* encryption loop it is written out, EncryptChunkPending being the states in
\* which the iteration is enabled (it always changes op)
SpecFair ==
  /\ InitApp /\ [][Next]_vars
  /\ WF_vars(AwaitSettles)
  /\ ([]<>~EncryptChunkPending \/ []<><<StreamEncryptChunk(0)>>_vars)

\* the App with batches following one another: a short source and the
\* earlier container in the queue, one credential, one batch more than Spec
QueueFiles == {SourceOfLen(1), EarlierContainer}

NextQueue ==
  \/ Login([password |-> <<112, 119>>, keyFileBuffer |-> NoKeyfile])
  \/ handleLogout
  \/ \E f \in QueueFiles : handleDrop(<<f>>)
  \/ \E f \in QueueFiles : handleFileSelect(<<f>>)
  \/ \E index \in 1..MaxFiles : removeFile(index)
  \/ cancelOperation
  \/ \E mode \in {"ENCRYPT", "DECRYPT"} : nBatches < MaxBatches + 1 /\ runCrypto(mode)
  \/ runCryptoResolved
  \/ runCryptoRejected
  \/ StreamStep({0})

SpecQueue == InitApp /\ [][NextQueue]_vars

\* ---------------------------------------------------- output-name helpers
\* strings are sequences of characters
EXTENSION_ENCRYPTED == <<".", "a", "e", "g", "i", "s">>
DecryptedPrefix == <<"d", "e", "c", "r", "y", "p", "t", "e", "d", "_">>

\* String.prototype.endsWith
EndsWith(s, suffix) ==
  /\ Len(s) >= Len(suffix)
  /\ SubSeq(s, Len(s) - Len(suffix) + 1, Len(s)) = suffix

\* the first 1-based position from i on at which sub occurs in s, 0 if none
RECURSIVE IndexOfFrom(_, _, _)
IndexOfFrom(s, sub, i) ==
  IF i + Len(sub) - 1 > Len(s) THEN 0
  ELSE IF SubSeq(s, i, i + Len(sub) - 1) = sub THEN i
  ELSE IndexOfFrom(s, sub, i + 1)

getEncryptedFilename(originalName) == originalName \o EXTENSION_ENCRYPTED

\* mutant of getDecryptedFilename: the first occurrence of the marker is
\* removed (encryptedName.replace(EXTENSION_ENCRYPTED, ''))
getDecryptedFilenameFirstMarker(encryptedName) ==
  LET at == IndexOfFrom(encryptedName, EXTENSION_ENCRYPTED, 1)
  IN  IF at > 0
      THEN SubSeq(encryptedName, 1, at - 1)
             \o SubSeq(encryptedName, at + Len(EXTENSION_ENCRYPTED), Len(encryptedName))
      ELSE DecryptedPrefix \o encryptedName

getDecryptedFilename(encryptedName) ==
  IF EndsWith(encryptedName, EXTENSION_ENCRYPTED)
  THEN JsSlice(encryptedName, 0, 0 - Len(EXTENSION_ENCRYPTED))
  ELSE DecryptedPrefix \o encryptedName

\* the names the helpers are called with: up to MaxNameParts pieces, among
\* them the marker, the marker without its dot and the marker in upper case
MaxNameParts == 2
MaxNameSteps == 2
NameParts ==
  {<<"a">>, <<".">>, EXTENSION_ENCRYPTED, <<"a", "e", "g", "i", "s">>,
   <<".", "A", "E", "G", "I", "S">>}
RECURSIVE NamesOf(_)
NamesOf(k) ==
  IF k = 0 THEN {<<>>}
  ELSE NamesOf(k - 1) \cup {n \o p : n \in NamesOf(k - 1), p \in NameParts}
Names == NamesOf(MaxNameParts)

\* a caller applies getEncryptedFilename to the name it holds
CallGetEncryptedFilename ==
  /\ naming.pc = "ready" /\ Len(naming.trail) < MaxNameSteps
  /\ naming' = [naming EXCEPT !.out = getEncryptedFilename(naming.out),
                              !.trail = Append(@, "encrypted")]
  /\ UNCHANGED <<session, files, isProcessing, progress, abortRef, aborted, logs,
                 batch, op, sealed, made, downloads, nBatches>>

\* a caller applies getDecryptedFilename to the name it holds
CallGetDecryptedFilename ==
  /\ naming.pc = "ready" /\ Len(naming.trail) < MaxNameSteps
  /\ naming' = [naming EXCEPT !.out = getDecryptedFilename(naming.out),
                              !.trail = Append(@, "decrypted")]
  /\ UNCHANGED <<session, files, isProcessing, progress, abortRef, aborted, logs,
                 batch, op, sealed, made, downloads, nBatches>>

InitNames ==
  /\ session = NoSession
  /\ files = <<>>
  /\ isProcessing = FALSE
  /\ progress = NoProgress
  /\ abortRef = "null"
  /\ aborted = FALSE
  /\ logs = {}
  /\ batch = IdleBatch
  /\ op = IdleOp
  /\ sealed = {}
  /\ made = {}
  /\ downloads = <<>>
  /\ nBatches = 0
  /\ naming \in {[pc |-> "ready", name |-> n, out |-> n, trail |-> <<>>] : n \in Names}

NextNames == CallGetEncryptedFilename \/ CallGetDecryptedFilename

SpecNames == InitNames /\ [][NextNames]_vars

\* ---------------------------------------------------------------- claims
DecryptEnded == op.mode = "DECRYPT" /\ op.pc \in {"done", "failed"}
SameCredential(m) == op.password = m.password /\ op.keyFileBuffer = m.keyFileBuffer
AuthError == op.pc = "failed" /\ op.error.msg = ErrDecryptFailed

\* b is c with exactly one bit changed, inside the ciphertext/tag region of a frame
IsCtTagBitFlip(c, b) ==
  /\ Len(b) = Len(c)
  /\ \E p \in CtTagRegion(c) :
       /\ OneBitApart(c[p + 1], b[p + 1])
       /\ \A q \in 1..Len(c) : q # p + 1 => b[q] = c[q]

\* C1: round trip.  Decrypting a container that processFileEncrypt returned
\* for source P, with the credential it was made with, never fails and never
\* stalls, and ends with exactly P.
C1_RoundTrip ==
  \A m \in made :
    (op.mode = "DECRYPT" /\ op.input = m.out /\ SameCredential(m)) =>
      /\ op.pc # "failed"
      /\ op.pc \in {"begin", "loop"} => ENABLED StreamStep(Seeds)
      /\ op.pc = "done" => op.result = m.src

\* a multi-chunk source with a short last chunk, under password and keyfile,
\* has come back
C1_Witness ==
  \E m \in made :
    /\ op.mode = "DECRYPT" /\ op.pc = "done" /\ op.input = m.out /\ SameCredential(m)
    /\ op.result = m.src
    /\ Len(m.src) > CHUNK_SIZE /\ Len(m.src) % CHUNK_SIZE # 0
    /\ m.keyFileBuffer.present

\* C2: tamper detection.  With the credential of the encryption, a container
\* with one bit changed in the ciphertext/tag region of a frame ends in the
\* authentication error and never in a result.
C2_TamperDetected ==
  \A m \in made :
    (DecryptEnded /\ SameCredential(m) /\ IsCtTagBitFlip(m.out, op.input)) =>
      AuthError /\ op.result = <<>>

\* a bit of the second frame was flipped, and the decryption failed there
C2_Witness ==
  \E m \in made :
    /\ DecryptEnded /\ SameCredential(m) /\ IsCtTagBitFlip(m.out, op.input)
    /\ AuthError /\ op.calls.cipher = 2

\* C3 (as claimed): a container with a whole frame removed, duplicated or
\* moved is never decrypted successfully.
C3_FrameEditsRejected ==
  \A m \in made :
    (DecryptEnded /\ SameCredential(m) /\ op.input \in FrameEdits(m.out)) =>
      op.pc # "done"

\* C4 (as claimed): a container made with password P and keyfile A is
\* rejected with the authentication error under (P, another keyfile) and
\* under (P, no keyfile), for any source.
C4_KeyfileBinding ==
  \A m \in made :
    (DecryptEnded /\ op.input = m.out /\ m.keyFileBuffer.present
       /\ op.password = m.password /\ op.keyFileBuffer # m.keyFileBuffer) =>
      AuthError

\* the random words drawn for the IVs of the chunks (the first draw is the salt)
IvDraws(o) == SubSeq(o.draws, 2, Len(o.draws))
Distinct(s) == \A i, j \in 1..Len(s) : i # j => s[i] # s[j]

\* C5: IV uniqueness.  Every frame of the container holds the IV drawn for
\* its chunk, one draw per chunk, so that distinct draws give distinct IVs.
C5_IvPerChunk ==
  (op.mode = "ENCRYPT" /\ op.pc = "done") =>
    LET offs == FrameOffsets(op.result)
        ivs == [j \in 1..Len(offs) |-> FrameIV(op.result, offs[j])]
    IN  /\ Len(offs) = Len(IvDraws(op))
        /\ Len(offs) = (Len(op.input) + CHUNK_SIZE - 1) \div CHUNK_SIZE
        /\ \A j \in 1..Len(offs) : ivs[j] = generateIV(IvDraws(op)[j])
        /\ Distinct(IvDraws(op)) => Distinct(ivs)

\* a container of several frames was made from distinct draws
C5_Witness ==
  /\ op.mode = "ENCRYPT" /\ op.pc = "done"
  /\ Len(IvDraws(op)) > 1 /\ Distinct(IvDraws(op))
  /\ Len(FrameOffsets(op.result)) = Len(IvDraws(op))

\* the next frame declares more bytes than the buffer has left
DeclaresTooMuch(o) ==
  /\ o.mode = "DECRYPT" /\ o.pc = "loop" /\ DecryptMore(o) /\ o.offset >= 0
  /\ GetInt32LE(o.input, o.offset) > Len(o.input) - o.offset - 4

\* C6: truncated length.  A frame that declares more bytes than remain after
\* its length field ends the operation with the unexpected-EOF error, with no
\* slice taken and no decrypt call made for it.
C6_TruncatedLength ==
  [][(DeclaresTooMuch(op) /\ op' # op) =>
       /\ op'.pc = "failed" /\ op'.error.msg = ErrUnexpectedEOF
       /\ op'.calls.slice = op.calls.slice
       /\ op'.calls.cipher = op.calls.cipher
       /\ op'.chunks = op.chunks]_vars

\* the 100-byte file that declares a 1 GiB chunk was rejected
C6_Witness ==
  /\ op.mode = "DECRYPT" /\ op.pc = "failed" /\ op.error.msg = ErrUnexpectedEOF
  /\ Len(op.input) = 100 /\ op.calls.slice = 0 /\ op.calls.cipher = 0

HasMagic(buf) == Len(buf) >= Len(FILE_MAGIC) /\ SubSeq(buf, 1, Len(FILE_MAGIC)) = FILE_MAGIC

\* C7: version rejection.  An input that starts with the magic and has a
\* version byte other than 2 ends in the version error, which carries the
\* version found, whatever follows the version byte.
C7_VersionRejected ==
  (op.mode = "DECRYPT" /\ op.pc # "begin" /\ HasMagic(op.input)
     /\ Len(op.input) > Len(FILE_MAGIC) /\ op.input[Len(FILE_MAGIC) + 1] # FILE_VERSION) =>
    /\ op.pc = "failed"
    /\ op.error = [msg |-> ErrVersion, found |-> op.input[Len(FILE_MAGIC) + 1]]
    /\ op.calls = NoCalls

\* a full container whose version byte was changed to 1 was rejected
C7_Witness ==
  /\ op.mode = "DECRYPT" /\ op.pc = "failed"
  /\ op.error = [msg |-> ErrVersion, found |-> 1]
  /\ Len(op.input) > HEADER_LENGTH

\* C8: magic rejection.  An input whose first 5 bytes are not the magic,
\* inputs shorter than 5 bytes included, ends in the magic error, also when
\* its version byte is wrong too.
C8_MagicRejected ==
  (op.mode = "DECRYPT" /\ op.pc # "begin" /\ ~HasMagic(op.input)) =>
    /\ op.pc = "failed"
    /\ op.error.msg = ErrInvalidMagic
    /\ op.calls = NoCalls

\* an input with a wrong magic and a wrong version byte got the magic error
C8_Witness ==
  /\ op.mode = "DECRYPT" /\ op.pc = "failed" /\ op.error.msg = ErrInvalidMagic
  /\ Len(op.input) > Len(FILE_MAGIC) /\ op.input[Len(FILE_MAGIC) + 1] # FILE_VERSION

\* an input shorter than the magic got the magic error
C8_WitnessShort ==
  /\ op.mode = "DECRYPT" /\ op.pc = "failed" /\ op.error.msg = ErrInvalidMagic
  /\ Len(op.input) < Len(FILE_MAGIC)


\* chunks or frames of the running stream operation are still unprocessed
ChunksLeft(o) ==
  /\ o.pc = "loop"
  /\ \/ o.mode = "ENCRYPT" /\ EncryptMore(o)
     \/ o.mode = "DECRYPT" /\ DecryptMore(o)

\* C9 (as claimed): once the signal of the batch is aborted while the stream
\* operation has chunks left, no further chunk is encrypted or decrypted and
\* the operation does not resolve with a result.
C9_CancelStopsStream ==
  [][(batch.pc = "awaitOp" /\ aborted /\ ChunksLeft(op)) =>
       /\ op'.calls.cipher = op.calls.cipher
       /\ op'.pc # "done"]_vars

\* the stream operation went through every chunk or frame of its input
ProcessedAll(o) ==
  /\ o.pc = "done"
  /\ o.result = Concat(o.chunks)
  /\ IF o.mode = "ENCRYPT"
     THEN /\ ~EncryptMore(o)
          /\ Len(o.chunks) = 1 + (Len(o.input) + CHUNK_SIZE - 1) \div CHUNK_SIZE
          /\ Len(o.result) = HEADER_LENGTH + Len(o.input)
                               + (Len(o.chunks) - 1) * (4 + IV_LENGTH + TAG_LENGTH)
     ELSE /\ ~DecryptMore(o)
          /\ Len(o.chunks) = o.calls.cipher
          /\ Len(o.result) = Len(o.input) - HEADER_LENGTH
                               - Len(o.chunks) * (4 + IV_LENGTH + TAG_LENGTH)

\* C10: no partial output.  downloadBlob is given something only when the
\* stream operation of the current file has resolved after all its chunks,
\* and then its whole result; a rejected operation delivers nothing.
C10_NoPartialOutput ==
  [][/\ downloads' # downloads =>
          /\ batch.pc = "awaitOp" /\ ProcessedAll(op)
          /\ downloads' = Append(downloads, op.result)
     /\ (batch.pc = "awaitOp" /\ op.pc = "failed") => downloads' = downloads]_vars

\* the first file of a batch was delivered, and the second failed at its
\* second frame with the plaintext of its first frame in memory
C10_Witness ==
  /\ batch.pc = "awaitOp" /\ batch.i = 2
  /\ op.mode = "DECRYPT" /\ op.pc = "failed" /\ op.chunks # <<>>
  /\ Len(downloads) = 1

\* C11: empty source.  processFileEncrypt of a zero-length source ends with a
\* container that is the header alone (magic, version, salt) without any
\* frame, and processFileDecrypt of that container with the same credential
\* ends with zero bytes; neither fails.
C11_EmptySource ==
  /\ (op.mode = "ENCRYPT" /\ op.input = <<>> /\ op.pc # "begin") =>
       /\ op.pc # "failed"
       /\ op.calls.cipher = 0 /\ op.progressLog = <<>>
       /\ op.pc = "loop" => ~EncryptMore(op)
       /\ op.pc = "done" =>
            /\ op.result = FILE_MAGIC \o <<FILE_VERSION>> \o op.salt
            /\ Len(op.salt) = SALT_LENGTH
            /\ Len(op.result) = HEADER_LENGTH
            /\ FrameOffsets(op.result) = <<>>
  /\ \A m \in made :
       (m.src = <<>> /\ op.mode = "DECRYPT" /\ op.input = m.out /\ SameCredential(m)
          /\ op.pc # "begin") =>
         /\ op.pc # "failed"
         /\ op.calls.cipher = 0
         /\ op.pc = "loop" => ~DecryptMore(op)
         /\ op.pc = "done" => op.result = <<>>

\* the header-only container of an empty source was decrypted to zero bytes
C11_Witness ==
  \E m \in made :
    /\ m.src = <<>> /\ Len(m.out) = HEADER_LENGTH
    /\ op.mode = "DECRYPT" /\ op.input = m.out /\ SameCredential(m)
    /\ op.pc = "done" /\ op.result = <<>>

\* the unsigned value of 4 bytes read least significant byte first
LittleEndian32(b) == b[1] + 256 * b[2] + 65536 * b[3] + 16777216 * b[4]

\* chunk j (1-based) of a source, CHUNK_SIZE bytes at a time
SourceChunk(src, j) == SubSeq(src, (j - 1) * CHUNK_SIZE + 1, Min(j * CHUNK_SIZE, Len(src)))

\* C12: container layout.  A container returned by processFileEncrypt is the
\* magic 41 45 47 49 53 at offset 0, the version byte 2 at offset 5, the
\* 32-byte salt at offset 6, and from offset 38 frames that fill the rest of
\* the buffer, each a 4-byte little-endian length L, a 12-byte IV and L - 12
\* bytes of ciphertext with tag, L being 12 plus the length of the chunk's
\* ciphertext with tag.
C12_ContainerLayout ==
  (op.mode = "ENCRYPT" /\ op.pc = "done") =>
    LET c == op.result
        offs == FrameOffsets(c)
        n == Len(offs)
    IN  /\ Len(c) >= 38
        /\ SubSeq(c, 1, 5) = <<65, 69, 71, 73, 83>>
        /\ c[6] = 2
        /\ SubSeq(c, 7, 38) = generateSalt(op.draws[1])
        /\ n = Len(op.draws) - 1
        /\ IF n = 0 THEN Len(c) = 38
           ELSE /\ offs[1] = 38
                /\ offs[n] + 4 + LittleEndian32(SubSeq(c, offs[n] + 1, offs[n] + 4)) = Len(c)
        /\ \A j \in 1..n :
             LET off == offs[j]
                 L == LittleEndian32(SubSeq(c, off + 1, off + 4))
                 iv == SubSeq(c, off + 5, off + 16)
                 body == SubSeq(c, off + 17, off + 4 + L)
             IN  /\ iv = generateIV(op.draws[j + 1])
                 /\ body = GcmEncrypt(op.key, iv, SourceChunk(op.input, j))
                 /\ L = 12 + Len(body)
                 /\ Len(body) = Len(SourceChunk(op.input, j)) + 16
                 /\ j < n => offs[j + 1] = off + 4 + L

\* a container of two frames of different lengths was returned
C12_Witness ==
  /\ op.mode = "ENCRYPT" /\ op.pc = "done"
  /\ Len(FrameOffsets(op.result)) = 2
  /\ FrameLength(op.result, FrameOffsets(op.result)[1])
       # FrameLength(op.result, FrameOffsets(op.result)[2])

\* the plaintext lengths of the frames of container c, in frame order
FramePlainLengths(c) ==
  [j \in 1..Len(FrameOffsets(c)) |->
     FrameLength(c, FrameOffsets(c)[j]) - 4 - IV_LENGTH - TAG_LENGTH]

\* the plaintexts of the frames of container c under key, in frame order
FramePlaintexts(c, key) ==
  [j \in 1..Len(FrameOffsets(c)) |->
     LET off == FrameOffsets(c)[j]
     IN  GcmDecrypt(key, FrameIV(c, off),
                    SubSeq(c, off + 5 + IV_LENGTH, off + FrameLength(c, off)))]

\* C13: chunking and output length.  For a source of n bytes the container
\* has exactly ceil(n / CHUNK_SIZE) frames, in source order; every chunk has
\* at most CHUNK_SIZE bytes of plaintext and only the last may be shorter;
\* the container length is the header length plus the sum over the frames of
\* 4 + 12 + plaintext length + 16.
C13_ChunkingAndLength ==
  (op.mode = "ENCRYPT" /\ op.pc = "done") =>
    LET n == Len(op.input)
        lens == FramePlainLengths(op.result)
        k == Len(lens)
    IN  /\ k * CHUNK_SIZE >= n /\ (k - 1) * CHUNK_SIZE < n
        /\ k = 0 <=> n = 0
        /\ \A j \in 1..k : /\ lens[j] >= 1 /\ lens[j] <= CHUNK_SIZE
                           /\ j < k => lens[j] = CHUNK_SIZE
        /\ Concat(FramePlaintexts(op.result, op.key)) = op.input
        /\ Len(op.result) = 38 + SumSeq([j \in 1..k |-> 4 + 12 + lens[j] + 16])
        /\ op.processedBytes = n

\* a source of a whole chunk and a shorter last one was encrypted
C13_Witness ==
  /\ op.mode = "ENCRYPT" /\ op.pc = "done"
  /\ Len(op.input) > CHUNK_SIZE /\ Len(op.input) % CHUNK_SIZE # 0
  /\ Len(FramePlainLengths(op.result)) = Len(op.input) \div CHUNK_SIZE + 1

\* C14: batch independence.  When the stream operation of file i fails and
\* the batch has not been cancelled (runCrypto takes an error caught while
\* the signal is aborted as the cancellation), the failure is logged for
\* file i and the next file, if any, is started with a fresh operation; a
\* batch that ends without cancellation has started and settled every file.
C14_BatchIndependence ==
  [][/\ (batch.pc = "awaitOp" /\ op.pc = "failed" /\ ~aborted) =>
          /\ LogEntry("Failed", batch.i, op.error.msg) \in logs'
          /\ downloads' = downloads
          /\ IF batch.i < Len(batch.files)
             THEN /\ batch'.pc = "awaitOp" /\ batch'.i = batch.i + 1
                  /\ batch'.files = batch.files
                  /\ batch'.successCount = batch.successCount
                  /\ op' = NewOp(batch.mode, batch.files[batch.i + 1],
                                 session.password, session.keyFileBuffer)
                  /\ isProcessing'
             ELSE batch'.pc = "idle"
     /\ (batch.pc = "awaitOp" /\ batch'.pc = "idle" /\ ~aborted) =>
          \A i \in 1..Len(batch.files) :
            /\ LogEntry("Starting", i, batch.mode) \in logs'
            /\ \/ LogEntry("Success", i, batch.mode) \in logs'
               \/ \E msg \in {ErrInvalidMagic, ErrVersion, ErrUnexpectedEOF,
                              ErrDecryptFailed, ErrRange} :
                    LogEntry("Failed", i, msg) \in logs']_vars

\* the first file of a batch failed its authentication, and the second file
\* was decrypted after it
C14_Witness ==
  /\ batch.pc = "awaitOp" /\ batch.i = 2 /\ ~aborted
  /\ LogEntry("Failed", 1, ErrDecryptFailed) \in logs
  /\ op.pc = "done" /\ op.mode = "DECRYPT" /\ op.calls.cipher > 0

\* C15 (as claimed): batch cancellation.  Once cancelOperation has aborted
\* the controller of the running batch, no stream operation is started for a
\* later file and nothing is delivered to downloadBlob for the file that was
\* in progress.
C15_BatchCancellation ==
  [][(batch.pc = "awaitOp" /\ aborted) =>
       /\ batch'.pc = "awaitOp" => batch'.i = batch.i
       /\ downloads' = downloads]_vars

\* a stream operation is in flight: started and not yet settled
InFlight(o) == o.pc \in {"begin", "loop"}

\* C16: at most one stream operation in flight.  A stream operation is
\* started only when the one before it has resolved or rejected (or none was
\* started yet), the operation of file i + 1 directly follows the settled
\* operation of file i, and while isProcessing is true the Encrypt and
\* Decrypt actions start no batch.
C16_OneOperationInFlight ==
  [][/\ (op' # op /\ op'.pc = "begin") => ~InFlight(op)
     /\ (batch'.pc = "awaitOp" /\ batch.pc = "awaitOp" /\ batch'.i # batch.i) =>
          /\ batch'.i = batch.i + 1
          /\ op.pc \in {"done", "failed"}
          /\ op'.pc = "begin"
     /\ isProcessing => /\ nBatches' = nBatches
                        /\ batch.pc = "awaitOp"
     /\ nBatches' # nBatches => /\ ~isProcessing /\ isProcessing'
                                /\ op.pc = "idle"]_vars

\* a second batch is under way, the operation of its second file started
\* after the operation of its first file had settled
C16_Witness ==
  /\ nBatches = 2 /\ isProcessing
  /\ batch.pc = "awaitOp" /\ batch.i = 2 /\ InFlight(op)

\* C17 (as claimed): progress reporting.  During processFileEncrypt the
\* progress callback has been called once for each frame appended so far,
\* the j-th call with the number of source bytes processed up to chunk j;
\* the values are strictly increasing and the last equals the source length.
C17_ProgressInBytes ==
  (op.mode = "ENCRYPT" /\ op.pc \in {"loop", "done"}) =>
    /\ Len(op.progressLog) = Len(op.chunks) - 1
    /\ \A j \in 1..Len(op.progressLog) :
         /\ op.progressLog[j] = Min(j * CHUNK_SIZE, Len(op.input))
         /\ j > 1 => op.progressLog[j] > op.progressLog[j - 1]
    /\ (op.pc = "done" /\ op.progressLog # <<>>) =>
         op.progressLog[Len(op.progressLog)] = Len(op.input)

\* the decryption ended in a rejected crypto.subtle.decrypt call
FailedAtChunk(o) ==
  o.mode = "DECRYPT" /\ o.pc = "failed" /\ o.calls.cipher = Len(o.chunks) + 1

\* why a decryption of container m.out, or of a corrupted copy of it, fails
WrongPassword(m) == op.input = m.out /\ op.password # m.password
WrongKeyfile(m) ==
  op.input = m.out /\ op.password = m.password /\ op.keyFileBuffer # m.keyFileBuffer
CorruptedChunk(m) ==
  SameCredential(m) /\ (IsCtTagBitFlip(m.out, op.input) \/ op.input \in IvEdits(m.out))

\* C18: indistinguishable authentication failures.  Whatever makes the
\* decryption of a container fail at a chunk (wrong password, wrong or
\* missing keyfile, corrupted ciphertext, tag or IV), the error the caller
\* gets is one and the same value, so two such failures never differ.
C18_OneAuthError ==
  \A m \in made :
    (FailedAtChunk(op) /\ (WrongPassword(m) \/ WrongKeyfile(m) \/ CorruptedChunk(m))) =>
      op.error = [msg |-> ErrDecryptFailed, found |-> 0]

\* a container of two frames whose second IV was corrupted failed at its
\* second chunk, under the right credential
C18_Witness ==
  \E m \in made :
    /\ FailedAtChunk(op) /\ SameCredential(m) /\ op.input \in IvEdits(m.out)
    /\ Len(op.chunks) = 1
    /\ op.error.msg = ErrDecryptFailed

\* the key material the running operation imported, once it has derived its key
KeyMaterialOf(o) == o.key.km

\* C19: key material.  Without keyfile the key material is exactly the UTF-8
\* bytes of the password ("pw" = 70 77, "p" and U+00E9 = 70 C3 A9); with a keyfile it
\* is those bytes followed by the 32-byte SHA-256 digest of the keyfile, so
\* its length is len(password bytes) + 32 for every keyfile, the empty one
\* included; it is fixed by (password, keyfile) alone.
C19_KeyMaterial ==
  (op.mode \in {"ENCRYPT", "DECRYPT"} /\ op.calls.prepare = 1) =>
    LET km == KeyMaterialOf(op)
        digestLen == IF op.keyFileBuffer.present THEN 32 ELSE 0
        pwBytes == SubSeq(km, 1, Len(km) - digestLen)
        digest == SubSeq(km, Len(km) - digestLen + 1, Len(km))
    IN  /\ op.password \in Passwords
        /\ op.password = <<112, 119>> => pwBytes = <<112, 119>>
        /\ op.password = <<112, 233>> => pwBytes = <<112, 195, 169>>
        /\ Len(km) = Len(pwBytes) + digestLen
        /\ ~op.keyFileBuffer.present => km = pwBytes
        /\ op.keyFileBuffer.present =>
             /\ Len(digest) = 32
             /\ digest = Sha256(op.keyFileBuffer.bytes)
             /\ km # pwBytes

\* a two-byte character in the password and an empty keyfile: 3 + 32 bytes
C19_Witness ==
  /\ op.calls.prepare = 1
  /\ op.password = <<112, 233>>
  /\ op.keyFileBuffer.present /\ op.keyFileBuffer.bytes = <<>>
  /\ Len(KeyMaterialOf(op)) = 35

\* C20: output-name round trip.  getEncryptedFilename appends '.aegis';
\* getDecryptedFilename of a name ending in '.aegis' is the name without its
\* last 6 characters, whatever comes before them; so decrypting the
\* encrypted name gives the original name back; a name that does not end in
\* '.aegis' gets the prefix 'decrypted_' and is otherwise unchanged.
C20_NameRoundTrip ==
  LET n == naming.name
      marker == <<".", "a", "e", "g", "i", "s">>
      endsInMarker == Len(n) >= 6 /\ SubSeq(n, Len(n) - 5, Len(n)) = marker
  IN  /\ naming.trail = <<"encrypted">> =>
           naming.out = n \o marker
      /\ naming.trail = <<"encrypted", "decrypted">> =>
           naming.out = n
      /\ (naming.trail = <<"decrypted">> /\ endsInMarker) =>
           naming.out = SubSeq(n, 1, Len(n) - 6)
      /\ (naming.trail = <<"decrypted">> /\ ~endsInMarker) =>
           naming.out = <<"d", "e", "c", "r", "y", "p", "t", "e", "d", "_">> \o n

\* a name with the marker in its middle has gone through both helpers
C20_Witness ==
  /\ naming.trail = <<"encrypted", "decrypted">>
  /\ naming.name = <<".", "a", "e", "g", "i", "s", "a">>
  /\ naming.out = naming.name

\* the input starts with the magic followed by the supported version byte
HeaderMatches(buf) ==
  /\ Len(buf) >= 6
  /\ SubSeq(buf, 1, 5) = <<65, 69, 71, 73, 83>>
  /\ buf[6] = 2

\* C21: header before key.  In processFileDecrypt prepareKeyMaterial,
\* deriveKey and decrypt are called only for an input whose magic and
\* version byte have matched; an input that fails the header check ends in
\* the format error with none of the three called.
C21_HeaderBeforeKey ==
  op.mode = "DECRYPT" =>
    /\ (op.calls.prepare > 0 \/ op.calls.derive > 0 \/ op.calls.cipher > 0
          \/ op.key # NoKey) => HeaderMatches(op.input)
    /\ (op.pc # "begin" /\ ~HeaderMatches(op.input)) =>
         /\ op.pc = "failed"
         /\ op.error.msg \in {ErrInvalidMagic, ErrVersion}
         /\ op.calls.prepare = 0 /\ op.calls.derive = 0 /\ op.calls.cipher = 0
         /\ op.key = NoKey

\* a full container with a changed magic byte was refused without a key
C21_Witness ==
  /\ op.mode = "DECRYPT" /\ op.pc = "failed" /\ op.error.msg = ErrInvalidMagic
  /\ Len(op.input) > HEADER_LENGTH
  /\ op.calls.prepare = 0 /\ op.calls.derive = 0 /\ op.key = NoKey

\* the next frame declares a length that is negative or below the IV length
DeclaresTooLittle(o) ==
  /\ o.mode = "DECRYPT" /\ o.pc = "loop" /\ DecryptMore(o) /\ o.offset >= 0
  /\ GetInt32LE(o.input, o.offset) < 12

\* C22 (as claimed): undersized frame length.  A frame whose length field is
\* negative or smaller than the IV length ends the operation with the
\* unexpected-EOF (truncated/corrupt) error, not with the authentication
\* error, and without a decrypt call for it.
C22_UndersizedLength ==
  [][(DeclaresTooLittle(op) /\ op' # op) =>
       /\ op'.pc = "failed" /\ op'.error.msg = ErrUnexpectedEOF
       /\ op'.calls.cipher = op.calls.cipher]_vars

\* C23 (as claimed): complete frame consumption.  processFileDecrypt of an
\* input with a full header completes successfully only when the parse
\* offset has reached exactly the buffer length; 1 to 3 stray bytes after the
\* last frame are not ignored.
C23_ConsumesWholeBuffer ==
  (op.mode = "DECRYPT" /\ op.pc = "done" /\ Len(op.input) >= HEADER_LENGTH) =>
    op.offset = Len(op.input)

\* C24: stop at the first authentication failure.  The step in which the
\* decryption of a frame is rejected reads that frame's length, takes its
\* slice and makes its decrypt call, and nothing else: no progress call for
\* the frame, no plaintext returned; the failed operation takes no further
\* step, so no later frame is read, sliced or decrypted.
C24_StopAtFirstFailure ==
  [][/\ (op.mode = "DECRYPT" /\ op.pc = "loop" /\ op'.pc = "failed"
           /\ op'.error.msg = ErrDecryptFailed) =>
          /\ op'.calls.lenRead = op.calls.lenRead + 1
          /\ op'.calls.slice = op.calls.slice + 1
          /\ op'.calls.cipher = op.calls.cipher + 1
          /\ op'.calls.lenRead = Len(op.chunks) + 1
          /\ op'.progressLog = op.progressLog
          /\ Len(op'.progressLog) = Len(op.chunks)
          /\ op'.chunks = op.chunks
          /\ op'.result = <<>>
     /\ (op.mode = "DECRYPT" /\ op.pc = "failed" /\ op' # op) =>
          op'.mode # "DECRYPT" \/ op'.pc = "begin"]_vars

\* a container of two frames failed at its first frame, and its second
\* frame was never read
C24_Witness ==
  /\ op.mode = "DECRYPT" /\ op.pc = "failed" /\ op.error.msg = ErrDecryptFailed
  /\ Len(FrameOffsets(op.input)) = 2
  /\ op.calls.lenRead = 1 /\ op.calls.cipher = 1
  /\ op.progressLog = <<>> /\ op.result = <<>>

\* the key of operation o is the one derived for its direction alone
KeyForDirection(o) ==
  /\ o.calls.derive = 1
  /\ o.key # NoKey
  /\ o.key.salt = o.salt
  /\ o.key.usage = IF o.mode = "ENCRYPT" THEN {"encrypt"} ELSE {"decrypt"}

\* C25: one key per operation, one direction per key.  A stream operation
\* starts without a key, derives its key exactly once before its first
\* chunk, for encryption alone or for decryption alone, and keeps it for
\* every chunk; the operation of the next file of a batch starts without a
\* key again.
C25_OneKeyPerOperation ==
  [][/\ op'.pc = "begin" => (op'.key = NoKey /\ op'.calls.derive = 0 /\ op'.calls.cipher = 0)
     /\ (op.pc = "begin" /\ op'.pc = "loop") => KeyForDirection(op')
     /\ (op.pc = "loop" /\ op'.pc \in {"loop", "done", "failed"}) =>
          /\ KeyForDirection(op)
          /\ op'.key = op.key
          /\ op'.calls.derive = 1
          /\ \A s \in sealed' \ sealed : s.km = op.key.km /\ s.salt = op.key.salt
     /\ op'.calls.cipher > 0 => op'.calls.derive = 1
     /\ (batch.pc = "awaitOp" /\ batch'.pc = "awaitOp" /\ batch'.i # batch.i) =>
          (op.key # NoKey => op'.key = NoKey)]_vars

\* the second file of a batch is being processed under the key derived for it
C25_Witness ==
  /\ batch.pc = "awaitOp" /\ batch.i = 2
  /\ op.pc = "loop" /\ op.calls.cipher = 1 /\ KeyForDirection(op)

\* C26 (as claimed): truncated header.  processFileDecrypt never completes
\* successfully on an input shorter than the full header of 38 bytes.
C26_TruncatedHeader ==
  (op.mode = "DECRYPT" /\ Len(op.input) < 38) => op.pc # "done"

\* C27 (as claimed): in the frame loop of processFileDecrypt the read offset
\* never decreases, and it strictly increases on every iteration that does
\* not end in an error.
C27_OffsetAdvances ==
  [][(op.mode = "DECRYPT" /\ op.pc = "loop" /\ op' # op
        /\ op'.mode = "DECRYPT" /\ op'.pc \in {"loop", "done", "failed"}) =>
       /\ op'.offset >= op.offset
       /\ (op'.pc = "loop" /\ DecryptMore(op)) => op'.offset > op.offset]_vars

\* the files dropped or selected since the running batch took its snapshot
AddedDuringBatch == SubSeq(files, Len(batch.files) + 1, Len(files))

\* C28 (as claimed): queue integrity.  When a batch ends, the files that
\* were added to the queue while it was running are still in the queue, at
\* its end, whatever the outcome of the batch.
C28_QueueIntegrity ==
  [][(batch.pc = "awaitOp" /\ batch'.pc = "idle") =>
       /\ Len(files') >= Len(AddedDuringBatch)
       /\ SubSeq(files', Len(files') - Len(AddedDuringBatch) + 1, Len(files'))
            = AddedDuringBatch]_vars

\* C29 (as claimed): batch completion report.  When a batch ends with
\* 'Batch Process Completed.' logged, every file of the batch succeeded and
\* cancelOperation was not invoked during the batch.
C29_CompletionReport ==
  [][(batch.pc = "awaitOp" /\ batch'.pc = "idle"
        /\ LogEntry("Batch Process Completed.", 0, "") \in logs') =>
       /\ ~aborted
       /\ \A i \in 1..Len(batch.files) : LogEntry("Success", i, batch.mode) \in logs']_vars

\* C30: return to idle.  Every batch started by runCrypto eventually ends;
\* the step that ends it leaves isProcessing false, progress cleared and the
\* abort controller reference null; and no step taken while isProcessing is
\* true changes the session, so logout does not clear it during a batch.
C30_ReturnToIdle ==
  /\ (batch.pc # "idle") ~> (batch.pc = "idle" /\ ~isProcessing)
  /\ [][(batch.pc = "awaitOp" /\ batch'.pc = "idle") =>
          (~isProcessing' /\ progress' = NoProgress /\ abortRef' = "null")]_vars
  /\ [][isProcessing => session' = session]_vars

\* a batch has ended after a cancellation with a failed or cancelled file,
\* the application is idle again and the session is still there
C30_Witness ==
  /\ nBatches > 0 /\ batch.pc = "idle" /\ ~isProcessing
  /\ progress = NoProgress /\ abortRef = "null"
  /\ aborted
  /\ session.loggedIn
  /\ \E e \in logs : e.text = "Failed"

====
